---- MODULE Spec2Model ----
(***************************************************************************)
(* Model of pl_processRecording.py: the frame loop of processRecording,    *)
(* the per-frame pipeline processFrame and the cumulative heatmap          *)
(* createHeatmap.                                                          *)
(*                                                                         *)
(* Images are abstracted to records [img, n, pts]: img names the raster    *)
(* ("world" for a camera frame, "ref" for the reference stimulus), n is    *)
(* the frame index the raster was produced for (-1 for the bare reference  *)
(* stimulus) and pts is the sequence of gaze records drawn on it.          *)
(* The results of the GazeMapper methods (pl_gazeMappingTools) are inputs  *)
(* of each loop iteration, drawn from small sets.                          *)
(***************************************************************************)
EXTENDS Integers, Sequences, FiniteSets, TLC

\* ---- bounds ------------------------------------------------------------
\* last configured frame index (the source uses np.arange(0, 445, 1))
LastFrame == 2
\* largest frame count reported by the video
MaxTotalFrames == 3
\* largest number of rows in gazeData_world.csv
MaxGazeRows == 3
\* largest number of keypoints found on a frame
MaxKeypoints == 2
\* largest number of correspondences returned by findMatches
MaxMatches == 11

\* ---- program constants ---------------------------------------------------
MinKeypoints == 2
MinMatches == 10
MaxBarePts == 2

\* value of ref_matchPts when there is no match array
None == -1

\* ---- helpers ---------------------------------------------------------------
SeqsUpTo(S, n) == UNION {[1..k -> S] : k \in 0..n}

SetMax(S) == CHOOSE m \in S : \A x \in S : x <= m

\* ---- state -----------------------------------------------------------------
VARIABLES
    vidOpen,             \* vid.isOpened()
    totalFrames,         \* CAP_PROP_FRAME_COUNT
    framesToUse,         \* configured frame indices
    gazeWorld_df,        \* rows of gazeData_world.csv
    frameCounter,        \* loop counter
    masterDefined,       \* 'gazeData_master' in locals()
    gazeData_master,     \* cumulative gaze log
    call,                \* what the last loop iteration did
    vidOut_orig,         \* frames written to orig.m4v
    vidOut_gaze,         \* frames written to gaze.m4v
    vidOut_summaryRef,   \* frames written to summaryRef.m4v
    vidOut_summaryWorld, \* frames written to summaryWorld.m4v
    writersOpen,         \* the four VideoWriters are not yet released
    tsv,                 \* contents written to gazeData_master.tsv, one per to_csv call
    err                  \* exception that left processRecording, or "none"

vars == <<vidOpen, totalFrames, framesToUse, gazeWorld_df, frameCounter,
          masterDefined, gazeData_master, call, vidOut_orig, vidOut_gaze,
          vidOut_summaryRef, vidOut_summaryWorld, writersOpen, tsv, err>>

outs == <<vidOut_orig, vidOut_gaze, vidOut_summaryRef, vidOut_summaryWorld>>

refStim == [img |-> "ref", n |-> -1, pts |-> <<>>]

NoCall == [status |-> "none", ret |-> FALSE, nkp |-> 0, matcherCalled |-> FALSE,
           numMatches |-> None, solver |-> "ok", gaze |-> <<>>,
           fr |-> [frameNum |-> -1]]

\* outcomes of mapper.PnP_3Dmapping / mapper.get2Dmapping
SolverOutcomes == {"ok", "pnpRaises", "get2DRaises"}

\* outcomes of mapper.findMatches: no match array, an empty array, or an array
\* with a number of rows around the threshold
MatchOutcomes == {None, 0} \cup ((MinMatches - 1)..MaxMatches)

\* ---- processFrame ------------------------------------------------------------
\* one mapped gaze record per gaze row of this frame
mapGazeRow(gazeRow, frameCounter_) ==
    [gaze_ts |-> gazeRow.timestamp, worldFrame |-> frameCounter_]

\* variant: the mapped records come out in reverse row order
mapGazeRows_reversed(thisFrame_gazeData_world, frameCounter_) ==
    [i \in 1..Len(thisFrame_gazeData_world) |->
        mapGazeRow(thisFrame_gazeData_world[Len(thisFrame_gazeData_world) + 1 - i],
                   frameCounter_)]

mapGazeRows(thisFrame_gazeData_world, frameCounter_) ==
    [i \in 1..Len(thisFrame_gazeData_world) |->
        mapGazeRow(thisFrame_gazeData_world[i], frameCounter_)]

\* variant: the threshold is inclusive
sufficientMatches_inclusive(ref_matchPts) ==
    IF ref_matchPts = None THEN FALSE ELSE ref_matchPts >= MinMatches

sufficientMatches(ref_matchPts) ==
    IF ref_matchPts = None THEN FALSE ELSE ref_matchPts > MinMatches

\* variant: a single keypoint is enough to call the matcher
matcherInvoked_single(nkp) == ~(nkp < MinKeypoints - 1)

matcherInvoked(nkp) == ~(nkp < MinKeypoints)

\* variant: the raw result also carries an empty gaze table
rawResult_withGaze(frameCounter_, origFrame) ==
    [frameNum |-> frameCounter_, origFrame |-> origFrame,
     frame_ts |-> frameCounter_, gazeFrame |-> origFrame,
     foundGoodMatch |-> FALSE, gazeData |-> <<>>]

\* the result stored when there are not enough matches
rawResult(frameCounter_, origFrame) ==
    [frameNum |-> frameCounter_, origFrame |-> origFrame,
     frame_ts |-> frameCounter_, gazeFrame |-> origFrame,
     foundGoodMatch |-> FALSE]

processFrame(frameCounter_, nkp, matchRes, solver, thisFrame_gazeData_world) ==
    LET origFrame == [img |-> "world", n |-> frameCounter_, pts |-> <<>>]
        invoked == matcherInvoked(nkp)
        ref_matchPts == IF invoked THEN matchRes ELSE None
        gazeData_df == mapGazeRows(thisFrame_gazeData_world, frameCounter_)
        gazeFrame == IF Len(thisFrame_gazeData_world) = 0
                     THEN origFrame
                     ELSE [img |-> "world", n |-> frameCounter_, pts |-> gazeData_df]
        base == [status |-> "returned", ret |-> TRUE, nkp |-> nkp,
                 matcherCalled |-> invoked, numMatches |-> ref_matchPts,
                 solver |-> solver, gaze |-> thisFrame_gazeData_world]
    IN  IF ~sufficientMatches(ref_matchPts)
        THEN [base EXCEPT !.solver = "ok"] @@
             [fr |-> rawResult(frameCounter_, origFrame)]
        ELSE IF solver = "pnpRaises"
        THEN [base EXCEPT !.status = "raised"] @@
             [fr |-> [frameNum |-> frameCounter_, origFrame |-> origFrame,
                      frame_ts |-> frameCounter_, foundGoodMatch |-> TRUE]]
        ELSE IF solver = "get2DRaises"
        THEN [base EXCEPT !.status = "raised"] @@
             [fr |-> [frameNum |-> frameCounter_, origFrame |-> origFrame,
                      frame_ts |-> frameCounter_, foundGoodMatch |-> TRUE,
                      camPosition |-> "camPosition",
                      camOrientation |-> "camOrientation"]]
        ELSE base @@
             [fr |-> [frameNum |-> frameCounter_, origFrame |-> origFrame,
                      frame_ts |-> frameCounter_, foundGoodMatch |-> TRUE,
                      camPosition |-> "camPosition",
                      camOrientation |-> "camOrientation",
                      ref2frame_2Dtrans |-> "ref2frame",
                      frame2ref_2Dtrans |-> "frame2ref",
                      gazeData |-> gazeData_df,
                      gazeFrame |-> gazeFrame]]

\* ---- createHeatmap -----------------------------------------------------------
heatmapRows(gazeData_master_, frameCounter_) ==
    SelectSeq(gazeData_master_, LAMBDA r : r.worldFrame <= frameCounter_)

\* variant: the bare reference image is returned for fewer than 2 records only
createHeatmap_strict(gazeData_master_, frameCounter_, refStim_) ==
    LET heatmap_df == heatmapRows(gazeData_master_, frameCounter_)
    IN  IF Len(heatmap_df) < MaxBarePts
        THEN refStim_
        ELSE [img |-> "ref", n |-> frameCounter_, pts |-> heatmap_df]

createHeatmap(gazeData_master_, frameCounter_, refStim_) ==
    LET heatmap_df == heatmapRows(gazeData_master_, frameCounter_)
    IN  IF Len(heatmap_df) <= MaxBarePts
        THEN refStim_
        ELSE [img |-> "ref", n |-> frameCounter_, pts |-> heatmap_df]

\* mapper.projectImage2D: the summary warped onto the original frame
projectImage2D(origFrame, summary) ==
    [img |-> "world", n |-> origFrame.n, pts |-> summary.pts]

\* ---- processRecording ---------------------------------------------------------
\* framesToUse after the "no attempts on nonexistent frames" filter
filterFramesToUse(configured, totalFrames_) ==
    IF totalFrames_ > SetMax(configured)
    THEN {f \in configured : f <= totalFrames_}
    ELSE configured

Init ==
    /\ vidOpen \in BOOLEAN
    /\ totalFrames \in (IF vidOpen THEN 1..MaxTotalFrames ELSE {0})
    /\ framesToUse = filterFramesToUse(0..LastFrame, totalFrames)
    \* gaze rows are in recording order: timestamps and frame indices ascend
    /\ \E idx \in SeqsUpTo(0..LastFrame, MaxGazeRows) :
          /\ \A i, j \in 1..Len(idx) : i < j => idx[i] <= idx[j]
          /\ gazeWorld_df = [i \in 1..Len(idx) |-> [index |-> idx[i], timestamp |-> i]]
    /\ frameCounter = 0
    /\ masterDefined = FALSE
    /\ gazeData_master = <<>>
    /\ call = NoCall
    /\ vidOut_orig = <<>>
    /\ vidOut_gaze = <<>>
    /\ vidOut_summaryRef = <<>>
    /\ vidOut_summaryWorld = <<>>
    /\ writersOpen = TRUE
    /\ tsv = <<>>
    /\ err = "none"

\* the loop is still iterating
Running == vidOpen /\ err = "none"

\* outcome of vid.read() at the current position: the video holds frames
\* 0 .. totalFrames - 1
ReadOutcomes == {frameCounter < totalFrames}

\* variant: the result of vid.read() is not looked at
validFrame_ignoreRet(ret, frameCounter_, framesToUse_) ==
    frameCounter_ \in framesToUse_

validFrame(ret, frameCounter_, framesToUse_) ==
    ret /\ frameCounter_ \in framesToUse_

thisFrameGaze(gazeWorld_df_, frameCounter_) ==
    SelectSeq(gazeWorld_df_, LAMBDA r : r.index = frameCounter_)

\* variant: the frame's gaze data replaces the cumulative log
goodMatchBranch_overwrite(defined, master, fr, frameCounter_) ==
    LET newMaster == fr.gazeData
        gazeSummary_ref == createHeatmap(newMaster, frameCounter_, refStim)
    IN  [master |-> newMaster,
         gazeSummary_ref |-> gazeSummary_ref,
         mappedSummaryFrame |-> projectImage2D(fr.origFrame, gazeSummary_ref)]

\* variant: the heatmap is rendered before the frame's gaze data is appended
goodMatchBranch_renderFirst(defined, master, fr, frameCounter_) ==
    LET newMaster == IF defined THEN master \o fr.gazeData ELSE fr.gazeData
        gazeSummary_ref == createHeatmap(master, frameCounter_, refStim)
    IN  [master |-> newMaster,
         gazeSummary_ref |-> gazeSummary_ref,
         mappedSummaryFrame |-> projectImage2D(fr.origFrame, gazeSummary_ref)]

\* the good-match branch of the loop body: append, then render and project
goodMatchBranch(defined, master, fr, frameCounter_) ==
    LET newMaster == IF defined THEN master \o fr.gazeData ELSE fr.gazeData
        gazeSummary_ref == createHeatmap(newMaster, frameCounter_, refStim)
    IN  [master |-> newMaster,
         gazeSummary_ref |-> gazeSummary_ref,
         mappedSummaryFrame |-> projectImage2D(fr.origFrame, gazeSummary_ref)]

\* the four writes at the end of the loop body
WriteFrame(fr, gazeSummary_ref, mappedSummaryFrame) ==
    /\ vidOut_orig' = Append(vidOut_orig, fr.origFrame)
    /\ vidOut_gaze' = Append(vidOut_gaze, fr.gazeFrame)
    /\ vidOut_summaryRef' = Append(vidOut_summaryRef, gazeSummary_ref)
    /\ vidOut_summaryWorld' = Append(vidOut_summaryWorld, mappedSummaryFrame)

\* increment the counter; past the last configured frame release everything
\* and write the cumulative log
LoopTail(defined, master) ==
    /\ frameCounter' = frameCounter + 1
    /\ IF frameCounter + 1 > SetMax(framesToUse)
       THEN /\ vidOpen' = FALSE
            /\ writersOpen' = FALSE
            /\ IF defined
               THEN tsv' = Append(tsv, master) /\ err' = "none"
               ELSE tsv' = tsv /\ err' = "NameError"
       ELSE UNCHANGED <<vidOpen, writersOpen, tsv, err>>

\* the frame was not read or is not configured: nothing is processed
SkipFrame ==
    /\ Running
    /\ \E ret \in ReadOutcomes :
          /\ ~validFrame(ret, frameCounter, framesToUse)
          /\ call' = [NoCall EXCEPT !.status = "skipped", !.ret = ret]
    /\ UNCHANGED <<masterDefined, gazeData_master, outs>>
    /\ LoopTail(masterDefined, gazeData_master)
    /\ UNCHANGED <<totalFrames, framesToUse, gazeWorld_df>>

\* processFrame returned foundGoodMatch = False
RawFrame ==
    /\ Running
    /\ \E ret \in ReadOutcomes, nkp \in 0..MaxKeypoints, matchRes \in MatchOutcomes :
          LET pf == processFrame(frameCounter, nkp, matchRes, "ok",
                                 thisFrameGaze(gazeWorld_df, frameCounter))
          IN  /\ validFrame(ret, frameCounter, framesToUse)
              /\ pf.status = "returned"
              /\ ~pf.fr.foundGoodMatch
              /\ call' = pf
              /\ WriteFrame(pf.fr, pf.fr.origFrame, pf.fr.origFrame)
    /\ UNCHANGED <<masterDefined, gazeData_master>>
    /\ LoopTail(masterDefined, gazeData_master)
    /\ UNCHANGED <<totalFrames, framesToUse, gazeWorld_df>>

\* processFrame returned foundGoodMatch = True
GoodFrame ==
    /\ Running
    /\ \E ret \in ReadOutcomes, nkp \in 0..MaxKeypoints, matchRes \in MatchOutcomes :
          LET pf == processFrame(frameCounter, nkp, matchRes, "ok",
                                 thisFrameGaze(gazeWorld_df, frameCounter))
              br == goodMatchBranch(masterDefined, gazeData_master, pf.fr, frameCounter)
          IN  /\ validFrame(ret, frameCounter, framesToUse)
              /\ pf.status = "returned"
              /\ pf.fr.foundGoodMatch
              /\ call' = pf
              /\ masterDefined' = TRUE
              /\ gazeData_master' = br.master
              /\ WriteFrame(pf.fr, br.gazeSummary_ref, br.mappedSummaryFrame)
              /\ LoopTail(TRUE, br.master)
    /\ UNCHANGED <<totalFrames, framesToUse, gazeWorld_df>>

\* a solver call inside processFrame raised: the exception leaves processRecording
SolverRaises ==
    /\ Running
    /\ \E ret \in ReadOutcomes, nkp \in 0..MaxKeypoints, matchRes \in MatchOutcomes,
          solver \in SolverOutcomes :
          LET pf == processFrame(frameCounter, nkp, matchRes, solver,
                                 thisFrameGaze(gazeWorld_df, frameCounter))
          IN  /\ validFrame(ret, frameCounter, framesToUse)
              /\ pf.status = "raised"
              /\ call' = pf
              /\ err' = "SolverError"
    /\ UNCHANGED <<vidOpen, totalFrames, framesToUse, gazeWorld_df, frameCounter,
                   masterDefined, gazeData_master, outs, writersOpen, tsv>>

Next == SkipFrame \/ RawFrame \/ GoodFrame \/ SolverRaises

Spec == Init /\ [][Next]_vars

\* the while loop keeps iterating as long as its condition holds
LiveSpec == Spec /\ WF_vars(Next)

\* ---- createHeatmap on arbitrary inputs ------------------------------------------
\* cumulative logs createHeatmap can be handed: mapped records in any frame order
HeatmapLogs ==
    {[i \in 1..Len(idx) |-> [gaze_ts |-> i, worldFrame |-> idx[i]]] :
        idx \in SeqsUpTo(0..LastFrame, MaxGazeRows + 1)}

HeatmapInit ==
    /\ gazeData_master \in HeatmapLogs
    /\ frameCounter \in 0..LastFrame
    /\ masterDefined = TRUE
    /\ vidOpen = TRUE
    /\ totalFrames = MaxTotalFrames
    /\ framesToUse = 0..LastFrame
    /\ gazeWorld_df = <<>>
    /\ call = NoCall
    /\ vidOut_orig = <<>>
    /\ vidOut_gaze = <<>>
    /\ vidOut_summaryRef = <<>>
    /\ vidOut_summaryWorld = <<>>
    /\ writersOpen = TRUE
    /\ tsv = <<>>
    /\ err = "none"

\* one call of createHeatmap; its result is kept as a frame of the summaryRef stream
HeatmapCall ==
    /\ vidOut_summaryRef = <<>>
    /\ vidOut_summaryRef' =
          Append(vidOut_summaryRef, createHeatmap(gazeData_master, frameCounter, refStim))
    /\ UNCHANGED <<vidOpen, totalFrames, framesToUse, gazeWorld_df, frameCounter,
                   masterDefined, gazeData_master, call, vidOut_orig, vidOut_gaze,
                   vidOut_summaryWorld, writersOpen, tsv, err>>

HeatmapNext == HeatmapCall

HeatmapSpec == HeatmapInit /\ [][HeatmapNext]_vars

\* ---- properties ------------------------------------------------------------------
Last(s) == s[Len(s)]

IsPrefix(s, t) == Len(s) <= Len(t) /\ \A i \in 1..Len(s) : s[i] = t[i]

RECURSIVE Flatten(_)
Flatten(ss) == IF ss = <<>> THEN <<>> ELSE Flatten(SubSeq(ss, 1, Len(ss) - 1)) \o Last(ss)

RECURSIVE SumSeq(_)
SumSeq(ns) == IF ns = <<>> THEN 0 ELSE SumSeq(SubSeq(ns, 1, Len(ns) - 1)) + Last(ns)

\* processFrame was entered in the last iteration
Entered == call.status \in {"returned", "raised"}

Returned == call.status = "returned"

GoodReturned == Returned /\ call.fr.foundGoodMatch

\* the i-th written frame came from the good-match branch of the loop
GoodWritten(i) == vidOut_summaryRef[i].img = "ref"

\* C1: when a frame has more than 10 correspondences and the pose or homography
\* solver fails, processFrame returns a result with foundGoodMatch = FALSE and
\* the original frame as overlay, and no exception reaches the frame loop.
C1_SolverFailureIsRawFrame ==
    (Entered /\ call.numMatches > 10 /\ call.solver # "ok") =>
        /\ call.status = "returned"
        /\ call.fr.foundGoodMatch = FALSE
        /\ call.fr.gazeFrame = call.fr.origFrame
        /\ err # "SolverError"

\* C2: every run reaches its end without a fatal error and writes the cumulative
\* log exactly once, after the frame counter passes the last configured frame
\* index, whatever the per-frame results were.
C2_PersistedOnceAtEnd ==
    /\ Len(tsv) <= 1
    /\ (Len(tsv) = 1 => frameCounter > SetMax(framesToUse))
    /\ (frameCounter > SetMax(framesToUse) =>
            /\ err = "none"
            /\ Len(tsv) = 1
            /\ tsv[1] = gazeData_master)

\* C3: the length of the cumulative log is the sum of the mapped-point counts
\* of the good-match frames processed so far; a frame without a good match
\* leaves the log unchanged and every step keeps the log as a prefix of the
\* new log.
C3_LogLength ==
    Len(gazeData_master) =
        SumSeq([i \in 1..Len(vidOut_gaze) |->
                   IF GoodWritten(i) THEN Len(vidOut_gaze[i].pts) ELSE 0])

C3_LogStep ==
    /\ IsPrefix(gazeData_master, gazeData_master')
    /\ Len(gazeData_master') = Len(gazeData_master) +
          (IF call'.status = "returned" /\ call'.fr.foundGoodMatch
           THEN Len(call'.fr.gazeData) ELSE 0)
    /\ (call'.status = "returned" /\ ~call'.fr.foundGoodMatch
            => gazeData_master' = gazeData_master /\ masterDefined' = masterDefined)

C3_AppendOnlyLog == []C3_LogLength /\ [][C3_LogStep]_vars

C3_Witness ==
    /\ Len(vidOut_orig) >= 3
    /\ \E i \in 1..Len(vidOut_orig) : ~GoodWritten(i)
    /\ \E i, j \in 1..Len(vidOut_orig) :
          i < j /\ GoodWritten(i) /\ GoodWritten(j)
          /\ vidOut_gaze[i].pts # <<>> /\ vidOut_gaze[j].pts # <<>>

\* C4: when the matcher returned a correspondence array, foundGoodMatch is true
\* exactly when the array has more than 10 rows (11 gives true, 10 gives
\* false); with 10 rows or fewer the result is returned without gaze data and
\* with the original frame as overlay.
C4_ExclusiveThreshold ==
    (Entered /\ call.matcherCalled /\ call.numMatches # None) =>
        /\ call.fr.foundGoodMatch = (call.numMatches > 10)
        /\ (call.numMatches = 11 => call.fr.foundGoodMatch)
        /\ (call.numMatches = 10 => ~call.fr.foundGoodMatch)
        /\ (call.numMatches <= 10 =>
                /\ call.status = "returned"
                /\ "gazeData" \notin DOMAIN call.fr
                /\ call.fr.gazeFrame = call.fr.origFrame)

C4_Witness ==
    /\ Returned /\ call.matcherCalled /\ call.numMatches = 10
    /\ call.gaze # <<>>
    /\ \E i \in 1..Len(vidOut_orig) : GoodWritten(i)

\* C5: a frame with fewer than 2 keypoints never invokes the matcher and always
\* returns a result with foundGoodMatch = FALSE.
C5_FewKeypointsNoMatcher ==
    (Entered /\ call.nkp < 2) =>
        /\ ~call.matcherCalled
        /\ call.status = "returned"
        /\ call.fr.foundGoodMatch = FALSE
        /\ err # "SolverError"

C5_Witness == Returned /\ call.nkp = 1 /\ Len(vidOut_orig) >= 2

\* C6: every returned result holds the frame index, the original frame, the
\* overlay frame and foundGoodMatch; the two transforms and the mapped gaze
\* points are present exactly when foundGoodMatch is true.
C6_ResultFields ==
    Returned =>
        /\ {"frameNum", "origFrame", "gazeFrame", "foundGoodMatch"} \subseteq DOMAIN call.fr
        /\ \A k \in {"frame2ref_2Dtrans", "ref2frame_2Dtrans", "gazeData"} :
              (k \in DOMAIN call.fr) <=> call.fr.foundGoodMatch

C6_Witness ==
    /\ Returned /\ ~call.fr.foundGoodMatch
    /\ \E i \in 1..Len(vidOut_orig) : GoodWritten(i)

\* C7: a good-match frame yields one mapped record per gaze row of that frame,
\* in the rows' order, each tagged with the frame index; with no gaze rows the
\* mapped set is empty, the result is still a good match, the loop appends
\* nothing and still renders the heatmap for the frame.
C7_OnePerSample ==
    GoodReturned =>
        LET rows == {i \in DOMAIN gazeWorld_df : gazeWorld_df[i].index = call.fr.frameNum}
            gd == call.fr.gazeData
        IN  /\ Len(gd) = Cardinality(rows)
            /\ {gd[i].gaze_ts : i \in DOMAIN gd} = {gazeWorld_df[i].timestamp : i \in rows}
            /\ \A i, j \in DOMAIN gd : i < j => gd[i].gaze_ts < gd[j].gaze_ts
            /\ \A i \in DOMAIN gd : gd[i].worldFrame = call.fr.frameNum
            /\ (rows = {} =>
                    /\ gd = <<>>
                    /\ call.fr.gazeFrame = call.fr.origFrame
                    /\ Last(vidOut_summaryRef).img = "ref"
                    /\ Last(vidOut_summaryRef).pts \in {<<>>, gazeData_master})

C7_EmptyAppendStep ==
    (call'.status = "returned" /\ call'.fr.foundGoodMatch /\ call'.gaze = <<>>) =>
        /\ gazeData_master' = gazeData_master
        /\ masterDefined'
        /\ Len(vidOut_summaryRef') = Len(vidOut_summaryRef) + 1

C7_MappedPerSample == []C7_OnePerSample /\ [][C7_EmptyAppendStep]_vars

C7_Witness ==
    /\ GoodReturned /\ call.gaze = <<>>
    /\ \E i \in 1..Len(vidOut_gaze) : GoodWritten(i) /\ Len(vidOut_gaze[i].pts) >= 2

\* C8: createHeatmap keeps the records with frame index <= the given frame
\* index and returns the bare reference image exactly when 0, 1 or 2 records
\* are kept; with 3 or more it returns a rendering of the kept records, which
\* differs from the reference image.
C8_HeatmapThreshold ==
    vidOut_summaryRef # <<>> =>
        LET out == vidOut_summaryRef[1]
            kept == {i \in DOMAIN gazeData_master :
                        gazeData_master[i].worldFrame <= frameCounter}
        IN  /\ (out = refStim) <=> (Cardinality(kept) \in {0, 1, 2})
            /\ Cardinality(kept) >= 3 =>
                  /\ out # refStim
                  /\ Len(out.pts) = Cardinality(kept)
                  /\ \A i \in DOMAIN out.pts : out.pts[i].worldFrame <= frameCounter

C8_Witness ==
    /\ vidOut_summaryRef # <<>>
    /\ vidOut_summaryRef[1] # refStim
    /\ Len(vidOut_summaryRef[1].pts) < Len(gazeData_master)

\* C9: frames are processed in ascending frame index, each at most once; on a
\* good-match frame N the append precedes the render, so the render sees a log
\* that holds exactly the mapped points of the good-match frames <= N, none of
\* a later frame, and the filter keeps the whole log.
C9_SequentialAppendThenRender ==
    /\ \A i, j \in 1..Len(vidOut_orig) : i < j => vidOut_orig[i].n < vidOut_orig[j].n
    /\ \A i \in 1..Len(vidOut_orig) : vidOut_orig[i].n <= frameCounter
    /\ gazeData_master = Flatten([i \in 1..Len(vidOut_gaze) |-> vidOut_gaze[i].pts])
    /\ GoodReturned =>
          /\ \A i \in DOMAIN gazeData_master :
                gazeData_master[i].worldFrame <= call.fr.frameNum
          /\ heatmapRows(gazeData_master, call.fr.frameNum) = gazeData_master
          /\ Last(vidOut_summaryRef) =
                (IF Len(gazeData_master) <= 2 THEN refStim
                 ELSE [img |-> "ref", n |-> call.fr.frameNum, pts |-> gazeData_master])

C9_Witness ==
    /\ GoodReturned
    /\ Len(gazeData_master) >= 3
    /\ call.gaze # <<>>
    /\ \E i \in 1..(Len(vidOut_orig) - 1) : GoodWritten(i) /\ vidOut_gaze[i].pts # <<>>

\* C10: the frame loop terminates; every iteration that does not leave the loop
\* by an exception adds one to the frame counter, read or not, configured or
\* not; the loop is left once the counter has passed the last configured index,
\* also when the video is shorter; only frames that were read and are
\* configured are processed and written.
C10_OnlyValidFramesWritten ==
    /\ Len(vidOut_gaze) = Len(vidOut_orig)
    /\ Len(vidOut_summaryRef) = Len(vidOut_orig)
    /\ Len(vidOut_summaryWorld) = Len(vidOut_orig)
    /\ \A i \in 1..Len(vidOut_orig) :
          vidOut_orig[i].n \in framesToUse /\ vidOut_orig[i].n < totalFrames
    /\ (Entered => call.fr.frameNum \in framesToUse /\ call.fr.frameNum < totalFrames)
    /\ frameCounter <= SetMax(framesToUse) + 1
    /\ (vidOpen => frameCounter <= SetMax(framesToUse))
    /\ (frameCounter > SetMax(framesToUse) => ~vidOpen /\ ~writersOpen)

C10_CounterStep ==
    \/ frameCounter' = frameCounter + 1
    \/ frameCounter' = frameCounter /\ err' = "SolverError"

====
